---- MODULE Spec2Model ----
(***************************************************************************)
(* Sales dashboard (app.py): the cached CSV load with its derived columns, *)
(* the four multiselect filters, the KPI and grouped aggregates and the    *)
(* CSV export, re-run as a whole on every user interaction.                *)
(*                                                                         *)
(* Numbers are exact rationals with the IEEE specials NaN, +inf and -inf   *)
(* (rounding of binary floating point is not modelled).  A CSV cell of a   *)
(* numeric column is a sequence of characters, a cell of a text column is  *)
(* a string, a date cell is a date written in one of two notations.        *)
(***************************************************************************)
EXTENDS Integers, Sequences, FiniteSets, TLC

VARIABLES file, cache, reads, session, sel, df, filtered_df,
          total_sales, avg_order_value, total_orders, avg_profit_margin,
          sales_trend, sales_by_product, sales_by_country, deal_size_dist,
          top_customers, exported

vars == <<file, cache, reads, session, sel, df, filtered_df,
          total_sales, avg_order_value, total_orders, avg_profit_margin,
          sales_trend, sales_by_product, sales_by_country, deal_size_dist,
          top_customers, exported>>

-----------------------------------------------------------------------------
(* Bounds of the model *)

\* rows of a source file of the general family
MaxRows == 2
\* customers (one row each) of a source file of the top-customers family
NumCust == 11

-----------------------------------------------------------------------------
(* Numbers: float64 / int64 values as pandas holds them *)

NaN == [t |-> "nan", n |-> 0, d |-> 1]
PosInf == [t |-> "inf", n |-> 0, d |-> 1]
NegInf == [t |-> "-inf", n |-> 0, d |-> 1]

Abs(i) == IF i < 0 THEN -i ELSE i

RECURSIVE GCD(_, _)
GCD(a, b) == IF b = 0 THEN a ELSE GCD(b, a % b)

\* the rational n/d (d > 0) in lowest terms
Rat(n, d) ==
    LET g == GCD(Abs(n), d)
    IN  [t |-> "num", n |-> n \div g, d |-> d \div g]

Num(i) == Rat(i, 1)

IsNaN(x) == x.t = "nan"
IsFinite(x) == x.t = "num"

\* x + y of two floats
FAdd(x, y) ==
    IF IsNaN(x) \/ IsNaN(y) THEN NaN
    ELSE IF IsFinite(x) /\ IsFinite(y) THEN Rat(x.n * y.d + y.n * x.d, x.d * y.d)
    ELSE IF IsFinite(x) THEN y
    ELSE IF IsFinite(y) THEN x
    ELSE IF x = y THEN x ELSE NaN

FNeg(x) == IF IsFinite(x) THEN Rat(-x.n, x.d)
           ELSE IF x = PosInf THEN NegInf
           ELSE IF x = NegInf THEN PosInf ELSE NaN

\* Series - Series, element by element
FSub(x, y) == FAdd(x, FNeg(y))

Sign(x) == IF x = PosInf THEN 1
           ELSE IF x = NegInf THEN -1
           ELSE IF x.n > 0 THEN 1 ELSE IF x.n < 0 THEN -1 ELSE 0

\* Series / Series, element by element: true division, which never raises
\* and gives nan for 0/0 and a signed infinity for x/0
FDiv(x, y) ==
    IF IsNaN(x) \/ IsNaN(y) THEN NaN
    ELSE IF IsFinite(y) /\ y.n = 0
         THEN IF Sign(x) = 0 THEN NaN ELSE IF Sign(x) > 0 THEN PosInf ELSE NegInf
    ELSE IF IsFinite(x) /\ IsFinite(y)
         THEN IF y.n > 0 THEN Rat(x.n * y.d, x.d * y.n)
                         ELSE Rat(-(x.n * y.d), x.d * (-y.n))
    ELSE IF IsFinite(x) THEN Num(0)
    ELSE IF IsFinite(y) THEN (IF Sign(y) >= 0 THEN x ELSE FNeg(x))
    ELSE NaN

FMulInt(x, k) ==
    IF IsFinite(x) THEN Rat(x.n * k, x.d)
    ELSE IF k > 0 THEN x ELSE IF k < 0 THEN FNeg(x) ELSE NaN

\* x <= y for two floats that are not nan
FLeq(x, y) ==
    IF x = NegInf \/ y = PosInf THEN TRUE
    ELSE IF x = PosInf \/ y = NegInf THEN FALSE
    ELSE x.n * y.d <= y.n * x.d

-----------------------------------------------------------------------------
(* CSV cells *)

Digits == <<"0", "1", "2", "3", "4", "5", "6", "7", "8", "9">>

DigitVal(c) == (CHOOSE i \in 1..10 : Digits[i] = c) - 1

\* cells read_csv takes for a missing value (its default na_values)
NaCells == {<<>>, <<"N", "A">>, <<"n", "a", "n">>}
NaStrings == {"", "NA", "nan", "NULL"}

\* a missing value in a text (object) column
NaNStr == "nan"

RECURSIVE DigitsVal(_)
DigitsVal(s) ==
    IF s = <<>> THEN 0
    ELSE 10 * DigitsVal(SubSeq(s, 1, Len(s) - 1)) + DigitVal(s[Len(s)])

IsSep(c) == c = ","

\* read_csv(thousands=','): the separators are dropped from a numeric cell
StripThousands(s) == SelectSeq(s, LAMBDA c : ~IsSep(c))

ParseNum(cell) ==
    IF cell \in NaCells THEN NaN
    ELSE LET s == StripThousands(cell)
         IN  IF Head(s) = "-" THEN Num(-DigitsVal(Tail(s))) ELSE Num(DigitsVal(s))

ParseStr(cell) == IF cell \in NaStrings THEN NaNStr ELSE cell

NaT == [y |-> 0, m |-> 0, d |-> 0]
NoDate == [fmt |-> "", y |-> 0, m |-> 0, d |-> 0]

\* pd.to_datetime: the day of either notation, NaT for a missing cell
ParseDate(cell) ==
    IF cell.fmt = "" THEN NaT ELSE [y |-> cell.y, m |-> cell.m, d |-> cell.d]

\* dt.to_period('M').astype(str): "YYYY-MM", and the text "NaT" for NaT
YearMonth(date) ==
    IF date = NaT THEN "NaT"
    ELSE ToString(date.y) \o "-" \o
         (IF date.m < 10 THEN "0" \o ToString(date.m) ELSE ToString(date.m))

RECURSIVE FormatNat(_)
FormatNat(i) ==
    IF i < 10 THEN <<Digits[i + 1]>>
    ELSE FormatNat(i \div 10) \o <<Digits[(i % 10) + 1]>>

FormatInt(i) == IF i < 0 THEN <<"-">> \o FormatNat(-i) ELSE FormatNat(i)

\* variant: to_csv(na_rep='0')
FormatNumNaRep0(x) ==
    IF IsNaN(x) THEN <<"0">>
    ELSE IF x = PosInf THEN <<"i", "n", "f">>
    ELSE IF x = NegInf THEN <<"-", "i", "n", "f">>
    ELSE IF x.d = 1 THEN FormatInt(x.n)
    ELSE FormatInt(x.n) \o <<"/">> \o FormatNat(x.d)

\* to_csv of a number: nan is the empty cell, no thousands separators;
\* n/d stands for the decimal text of a value that is not whole
FormatNum(x) ==
    IF IsNaN(x) THEN <<>>
    ELSE IF x = PosInf THEN <<"i", "n", "f">>
    ELSE IF x = NegInf THEN <<"-", "i", "n", "f">>
    ELSE IF x.d = 1 THEN FormatInt(x.n)
    ELSE FormatInt(x.n) \o <<"/">> \o FormatNat(x.d)

FormatStr(s) == IF s = NaNStr THEN "" ELSE s

\* to_csv of a datetime column whose times are all midnight: ISO day
FormatDate(date) ==
    IF date = NaT THEN NoDate
    ELSE [fmt |-> "iso", y |-> date.y, m |-> date.m, d |-> date.d]

-----------------------------------------------------------------------------
(* load_data *)

\* one row of the table load_data returns
LoadRow(r) ==
    LET date == ParseDate(r.ORDER_DATE)
        price == ParseNum(r.PRICE_EACH)
        msrp == ParseNum(r.MSRP)
        profit == FSub(price, msrp)
    IN  [ORDER_NUMBER |-> ParseNum(r.ORDER_NUMBER),
         ORDER_DATE |-> date,
         PRICE_EACH |-> price,
         MSRP |-> msrp,
         SALES |-> ParseNum(r.SALES),
         YEAR |-> ParseNum(r.YEAR),
         STATUS |-> ParseStr(r.STATUS),
         PRODUCTLINE |-> ParseStr(r.PRODUCTLINE),
         DEALSIZE |-> ParseStr(r.DEALSIZE),
         COUNTRY |-> ParseStr(r.COUNTRY),
         CUSTOMER_NAME |-> ParseStr(r.CUSTOMER_NAME),
         YEAR_MONTH |-> YearMonth(date),
         PROFIT |-> profit,
         PROFIT_MARGIN |-> FMulInt(FDiv(profit, price), 100)]

load_data(f) == [i \in 1..Len(f) |-> LoadRow(f[i])]

-----------------------------------------------------------------------------
(* Sidebar filters *)

\* Series.unique(): the distinct values of a column, a missing value included
Unique(t, col) == {t[i][col] : i \in 1..Len(t)}

\* the options, and the default, of the four multiselects
Options(t) ==
    [years |-> Unique(t, "YEAR"),
     statuses |-> Unique(t, "STATUS"),
     product_lines |-> Unique(t, "PRODUCTLINE"),
     deal_sizes |-> Unique(t, "DEALSIZE")]

Dims == {"years", "statuses", "product_lines", "deal_sizes"}

NoSelection ==
    [years |-> {}, statuses |-> {}, product_lines |-> {}, deal_sizes |-> {}]

\* variant: an empty selection taken for "select all"
IsInOrAll(v, values) == values = {} \/ \E x \in values : x = v

\* variant: the test negated
IsNotIn(v, values) == ~ \E x \in values : x = v

\* Series.isin(values) for one element: membership, nan matching nan
IsIn(v, values) == \E x \in values : x = v

\* variant: the deal-size test left out
MaskNoDealSize(t, s) ==
    [i \in 1..Len(t) |->
        /\ IsIn(t[i].YEAR, s.years)
        /\ IsIn(t[i].STATUS, s.statuses)
        /\ IsIn(t[i].PRODUCTLINE, s.product_lines)]

\* the boolean mask of the four isin tests joined by &
Mask(t, s) ==
    [i \in 1..Len(t) |->
        /\ IsIn(t[i].YEAR, s.years)
        /\ IsIn(t[i].STATUS, s.statuses)
        /\ IsIn(t[i].PRODUCTLINE, s.product_lines)
        /\ IsIn(t[i].DEALSIZE, s.deal_sizes)]

\* df[mask]: a new table of the rows whose mask is True, in their order
RECURSIVE BoolIndex(_, _)
BoolIndex(t, mask) ==
    IF t = <<>> THEN <<>>
    ELSE LET n == Len(t)
             init == BoolIndex(SubSeq(t, 1, n - 1), SubSeq(mask, 1, n - 1))
         IN  IF mask[n] THEN Append(init, t[n]) ELSE init

Filter(t, s) == BoolIndex(t, Mask(t, s))

-----------------------------------------------------------------------------
(* Aggregates *)

Column(t, col) == [i \in 1..Len(t) |-> t[i][col]]

\* Series.count(): the values that are not nan
Count(c) == Cardinality({i \in 1..Len(c) : ~IsNaN(c[i])})

\* the values of a series added up from left to right, nan skipped
RECURSIVE SumFrom(_, _)
SumFrom(c, acc) ==
    IF c = <<>> THEN acc
    ELSE SumFrom(Tail(c), IF IsNaN(Head(c)) THEN acc ELSE FAdd(acc, Head(c)))

\* variant: sum(min_count=1), nan for a series with no value
SumMinCount(c) == IF Count(c) = 0 THEN NaN ELSE SumFrom(c, Num(0))

\* Series.sum(): nan skipped, 0 for an empty series
Sum(c) == SumFrom(c, Num(0))

\* Series.mean(): nan skipped, nan when nothing is left
Mean(c) == IF Count(c) = 0 THEN NaN ELSE FDiv(Sum(c), Num(Count(c)))

\* Series.nunique(): distinct values, nan not counted
NUnique(c) == Cardinality({c[i] : i \in 1..Len(c)} \ {NaN})

\* groupby(key)['SALES'].sum(): one entry per key present, rows whose key is
\* missing dropped
GroupSum(t, key) ==
    [k \in Unique(t, key) \ {NaNStr} |->
        Sum(Column(SelectSeq(t, LAMBDA r : r[key] = k), "SALES"))]

\* Series.value_counts(): rows per value, missing values not counted
ValueCounts(t, col) ==
    [k \in Unique(t, col) \ {NaNStr} |->
        Cardinality({i \in 1..Len(t) : t[i][col] = k})]

\* customer names: C01, C02, ...
Name(i) == "C" \o (IF i < 10 THEN "0" ELSE "") \o ToString(i)

\* the place of a customer name in sorted order: the order of the groups of
\* a groupby
Rank(name) == CHOOSE i \in 1..99 : Name(i) = name

TopN == 10

\* variant: head(n), the first group in name order
FirstGroup(g, left) == CHOOSE k \in left : \A o \in left : Rank(k) <= Rank(o)

\* the entry nlargest takes next: the largest value, the first group of a tie
Best(g, left) ==
    CHOOSE k \in left :
        \A o \in left :
            \/ o = k
            \/ ~FLeq(g[k], g[o])
            \/ g[k] = g[o] /\ Rank(k) < Rank(o)

\* Series.nlargest(n).reset_index(): the n largest in descending order
RECURSIVE NLargest(_, _, _)
NLargest(g, left, n) ==
    IF n = 0 \/ left = {} THEN <<>>
    ELSE LET k == Best(g, left)
         IN  <<[CUSTOMER_NAME |-> k, SALES |-> g[k]]>>
             \o NLargest(g, left \ {k}, n - 1)

TopCustomers(t) ==
    LET g == GroupSum(t, "CUSTOMER_NAME")
    IN  NLargest(g, DOMAIN g, TopN)

-----------------------------------------------------------------------------
(* Export *)

\* one line of to_csv(index=False): every column, derived ones included
ExportRow(r) ==
    [ORDER_NUMBER |-> FormatNum(r.ORDER_NUMBER),
     ORDER_DATE |-> FormatDate(r.ORDER_DATE),
     PRICE_EACH |-> FormatNum(r.PRICE_EACH),
     MSRP |-> FormatNum(r.MSRP),
     SALES |-> FormatNum(r.SALES),
     YEAR |-> FormatNum(r.YEAR),
     STATUS |-> FormatStr(r.STATUS),
     PRODUCTLINE |-> FormatStr(r.PRODUCTLINE),
     DEALSIZE |-> FormatStr(r.DEALSIZE),
     COUNTRY |-> FormatStr(r.COUNTRY),
     CUSTOMER_NAME |-> FormatStr(r.CUSTOMER_NAME),
     YEAR_MONTH |-> r.YEAR_MONTH,
     PROFIT |-> FormatNum(r.PROFIT),
     PROFIT_MARGIN |-> FormatNum(r.PROFIT_MARGIN)]

to_csv(t) == [i \in 1..Len(t) |-> ExportRow(t[i])]

-----------------------------------------------------------------------------
(* Source files *)

Day(fmt, y, m, d) == [fmt |-> fmt, y |-> y, m |-> m, d |-> d]

Line(order, date, price, msrp, sales, year, status, pline, deal, country, cust) ==
    [ORDER_NUMBER |-> order, ORDER_DATE |-> date, PRICE_EACH |-> price,
     MSRP |-> msrp, SALES |-> sales, YEAR |-> year, STATUS |-> status,
     PRODUCTLINE |-> pline, DEALSIZE |-> deal, COUNTRY |-> country,
     CUSTOMER_NAME |-> cust]

Y2003 == <<"2", "0", "0", "3">>
Y2004 == <<"2", "0", "0", "4">>

\* the lines a source file of the general family is made of: an order number
\* with and without its thousands separator, both date notations, a unit
\* price of 0 with and without a cost, missing cells, a negative amount
SampleLines ==
    { Line(<<"1", "0", ",", "1", "0", "7">>, Day("mdy", 2003, 2, 24),
           <<"1", "0", "0">>, <<"5", "0">>, <<"2", ",", "0", "0", "0">>,
           Y2003, "Shipped", "Cars", "Small", "USA", Name(1)),
      Line(<<"1", "0", "1", "0", "7">>, Day("iso", 2003, 2, 24),
           <<"3">>, <<"2">>, <<"1", "5", "0">>,
           Y2003, "Shipped", "Planes", "Large", "USA", Name(2)),
      Line(<<"1", "0", "1", "2", "1">>, Day("mdy", 2004, 5, 7),
           <<"0">>, <<"6", "0">>, <<"0">>,
           Y2004, "Cancelled", "Cars", "Small", "France", Name(1)),
      Line(<<"1", "0", "1", "3", "4">>, Day("iso", 2004, 11, 2),
           <<"0">>, <<"0">>, <<"3", "0", "0">>,
           Y2004, "Shipped", "Planes", "", "France", Name(3)),
      Line(<<>>, NoDate,
           <<"N", "A">>, <<"8", "0">>, <<>>,
           Y2004, "Cancelled", "Planes", "NA", "", "NULL"),
      Line(<<"1", "0", "1", "4", "5">>, Day("mdy", 2003, 12, 1),
           <<"5", "0">>, <<"1", "0", "0">>, <<"-", "5", "0">>,
           Y2003, "Cancelled", "Cars", "Large", "USA", Name(2)) }

RECURSIVE SeqsUpTo(_, _)
SeqsUpTo(S, n) ==
    IF n = 0 THEN {<<>>}
    ELSE LET shorter == SeqsUpTo(S, n - 1)
         IN  shorter \cup {Append(f, x) : f \in shorter, x \in S}

\* pd.to_datetime reads a column written in one notation (it takes the
\* format of the first date for all of them)
OneNotation(f) ==
    \A i, j \in 1..Len(f) :
        \/ f[i].ORDER_DATE.fmt = ""
        \/ f[j].ORDER_DATE.fmt = ""
        \/ f[i].ORDER_DATE.fmt = f[j].ORDER_DATE.fmt

\* the general family: up to MaxRows sample lines in any order, the dates of
\* a file in one notation
Files == {f \in SeqsUpTo(SampleLines, MaxRows) : OneNotation(f)}

TopLine(i, low) ==
    Line(FormatNat(10100 + i), Day("iso", 2003, 1 + (i % 12), 1),
         <<"1", "0", "0">>, <<"5", "0">>,
         IF i \in low THEN <<"1", "0", "0">> ELSE <<"2", "0", "0">>,
         IF i % 2 = 1 THEN Y2003 ELSE Y2004,
         "Shipped", "Cars", "Small", "USA", Name(i))

\* the top-customers family: one line for each of n customers, NumCust of
\* them or one fewer, who sell 200 each but for up to two of them (a, b; 0 is
\* no customer) who sell 100, then a second line for the first customer
TopFiles ==
    { Append([i \in 1..n |-> TopLine(i, {a, b})], TopLine(1, {1})) :
        n \in (NumCust - 1)..NumCust, a \in 0..NumCust, b \in 0..NumCust }

-----------------------------------------------------------------------------
(* The script, run from top to bottom on every interaction *)

\* variant: no caching
NeverHit(c) == FALSE

\* st.cache_data: is there an entry for load_data()
CacheHit(c) == c # <<>>

\* variant: df = df[mask], the cached table filtered in place
IndexedInPlace(t, view) == view

\* df[mask] builds a new table: df itself keeps every row
AfterIndexing(t, view) == t

\* one run of the script with the table d that load_data() returned and the
\* selection s of the four multiselects
Render(d, s) ==
    LET view == Filter(d, s)
    IN  /\ sel' = s
        /\ df' = AfterIndexing(d, view)
        /\ filtered_df' = view
        /\ total_sales' = Sum(Column(view, "SALES"))
        /\ avg_order_value' = Mean(Column(view, "SALES"))
        /\ total_orders' = NUnique(Column(view, "ORDER_NUMBER"))
        /\ avg_profit_margin' = Mean(Column(view, "PROFIT_MARGIN"))
        /\ sales_trend' = GroupSum(view, "YEAR_MONTH")
        /\ sales_by_product' = GroupSum(view, "PRODUCTLINE")
        /\ sales_by_country' = GroupSum(view, "COUNTRY")
        /\ deal_size_dist' = ValueCounts(view, "DEALSIZE")
        /\ top_customers' = TopCustomers(view)
        /\ exported' = to_csv(view)

\* df = load_data(): computed on the first call, the cached table afterwards
Load ==
    /\ reads' = IF CacheHit(cache) THEN reads ELSE reads + 1
    /\ cache' = <<df'>>
    /\ UNCHANGED file

Loaded == IF CacheHit(cache) THEN cache[1] ELSE load_data(file)

\* a browser opens the page: every multiselect starts at its default
NewSession ==
    /\ session' = TRUE
    /\ Render(Loaded, Options(Loaded))
    /\ Load

\* the user adds or removes one option of one multiselect
Toggle(dim, v) ==
    /\ session
    /\ v \in Options(Loaded)[dim]
    /\ Render(Loaded, [sel EXCEPT ![dim] = IF v \in @ THEN @ \ {v} ELSE @ \cup {v}])
    /\ Load
    /\ UNCHANGED session

\* the user presses the download button: the script runs again as it is
Download ==
    /\ session
    /\ Render(Loaded, sel)
    /\ Load
    /\ UNCHANGED session

Blank ==
    /\ cache = <<>>
    /\ reads = 0
    /\ session = FALSE
    /\ sel = NoSelection
    /\ df = <<>>
    /\ filtered_df = <<>>
    /\ total_sales = Num(0)
    /\ avg_order_value = NaN
    /\ total_orders = 0
    /\ avg_profit_margin = NaN
    /\ sales_trend = <<>>
    /\ sales_by_product = <<>>
    /\ sales_by_country = <<>>
    /\ deal_size_dist = <<>>
    /\ top_customers = <<>>
    /\ exported = <<>>

Init == file \in Files /\ Blank

InitTop == file \in TopFiles /\ Blank

Next ==
    \/ NewSession
    \/ \E dim \in Dims : \E v \in Options(Loaded)[dim] : Toggle(dim, v)
    \/ Download

Spec == Init /\ [][Next]_vars

SpecTop == InitTop /\ [][Next]_vars

-----------------------------------------------------------------------------
(* Properties *)

Matches(r) ==
    /\ r.YEAR \in sel.years
    /\ r.STATUS \in sel.statuses
    /\ r.PRODUCTLINE \in sel.product_lines
    /\ r.DEALSIZE \in sel.deal_sizes

\* C1: after every run the Filtered View holds exactly the rows of the loaded
\* table, in order, whose YEAR, STATUS, PRODUCTLINE and DEALSIZE are each in
\* the current selection, whatever was selected before.
C1_FilterExact == session => filtered_df = SelectSeq(df, Matches)

\* a run after some toggles that kept one row of two, a row whose deal size
\* is missing
C1_Witness ==
    /\ session
    /\ Len(df) = 2
    /\ Len(filtered_df) = 1
    /\ filtered_df[1].DEALSIZE = NaNStr
    /\ sel.deal_sizes # Options(df).deal_sizes

\* C2: an empty selection in any one dimension gives an empty Filtered View.
C2_EmptySelectionEmptyView ==
    (session /\ \E dim \in Dims : sel[dim] = {}) => filtered_df = <<>>

\* a run over a table with rows where only the statuses are all deselected
C2_Witness ==
    /\ session
    /\ df # <<>>
    /\ sel.statuses = {}
    /\ sel.years = Options(df).years
    /\ sel.product_lines = Options(df).product_lines
    /\ sel.deal_sizes = Options(df).deal_sizes

IsZero(x) == IsFinite(x) /\ x.n = 0

\* the margins of the rows of a view, those of a unit price of 0 left out
MarginsWithoutZeroPrice(t) ==
    Column(SelectSeq(t, LAMBDA r : ~IsZero(r.PRICE_EACH)), "PROFIT_MARGIN")

\* the margins of the rows of a view, those of a unit price of 0 counted as 0
MarginsZeroPriceAsZero(t) ==
    [i \in 1..Len(t) |->
        IF IsZero(t[i].PRICE_EACH) THEN Num(0) ELSE t[i].PROFIT_MARGIN]

\* C3: the average profit margin of a view leaves the rows of unit price 0
\* out (or counts them as 0): it is the average of the other rows' margins.
C3_ZeroPriceLeftOut ==
    session =>
        \/ avg_profit_margin = Mean(MarginsWithoutZeroPrice(filtered_df))
        \/ avg_profit_margin = Mean(MarginsZeroPriceAsZero(filtered_df))

\* C4: over an empty Filtered View total sales is 0, the order count is 0,
\* both averages are nan, every grouped aggregate is empty and so are the
\* raw table and the export.
C4_EmptyViewDegrades ==
    (session /\ filtered_df = <<>>) =>
        /\ total_sales = Num(0)
        /\ total_orders = 0
        /\ avg_order_value = NaN
        /\ avg_profit_margin = NaN
        /\ DOMAIN sales_trend = {}
        /\ DOMAIN sales_by_product = {}
        /\ DOMAIN sales_by_country = {}
        /\ DOMAIN deal_size_dist = {}
        /\ Len(top_customers) = 0
        /\ Len(exported) = 0

\* a run whose selection excludes every row of a table that has rows
C4_Witness == session /\ df # <<>> /\ filtered_df = <<>>

\* C5: the source is read at most once; once the cache holds the table a run
\* reads nothing and gets the cached table.
C5_ReadOnce ==
    /\ [](reads <= 1)
    /\ [][cache # <<>> => (reads' = reads /\ df' = cache[1])]_vars

\* a later run (the selection is no longer the default) with the one read done
C5_Witness == session /\ reads = 1 /\ sel # Options(df) /\ cache # <<>>

\* C6: no run changes the cached table: it and the table the script works on
\* stay what load_data first returned, whatever the filters keep.
C6_CacheNotWritten ==
    [][cache # <<>> => (cache' = cache /\ df' = df)]_vars

\* a run that filtered rows out and left the cached table whole
C6_Witness ==
    session /\ Len(filtered_df) < Len(df) /\ cache = <<df>> /\ Len(df) = Len(file)

\* a step that removes one value from the selection of one dimension
Narrowed ==
    /\ session
    /\ \E dim \in Dims : \E v \in sel[dim] : sel' = [sel EXCEPT ![dim] = @ \ {v}]

NonNegativeSales ==
    \A i \in 1..Len(df) : IsNaN(df[i].SALES) \/ df[i].SALES.n >= 0

\* C7 as stated: for every dataset, removing one selected value never
\* increases total sales.
C7_Original == [][Narrowed => FLeq(total_sales', total_sales)]_vars

\* C7: for every dataset whose SALES are not negative, removing one selected
\* value never increases total sales.
C7_MonotoneNonNegative ==
    [][(Narrowed /\ NonNegativeSales) => FLeq(total_sales', total_sales)]_vars

\* a run over non-negative sales whose narrowed selection lowered the total
C7_Witness ==
    /\ session
    /\ NonNegativeSales
    /\ \E dim \in Dims : sel[dim] # Options(df)[dim]
    /\ total_sales # Sum(Column(df, "SALES"))
    /\ filtered_df # <<>>

\* the customers of a view
CustomersIn(t) == {t[i].CUSTOMER_NAME : i \in 1..Len(t)} \ {NaNStr}

\* the whole sales of customer c in the first i rows of a view
RECURSIVE SalesOf(_, _, _)
SalesOf(t, c, i) ==
    IF i = 0 THEN 0
    ELSE SalesOf(t, c, i - 1)
         + (IF t[i].CUSTOMER_NAME = c /\ IsFinite(t[i].SALES) THEN t[i].SALES.n ELSE 0)

\* C8: the top customers are customers of the Filtered View with their
\* summed sales, in descending order of the sum, at most 10, fewer than 10
\* only if the view has fewer than 10 customers, and none left out sells
\* more than one listed.
C8_TopTen ==
    session =>
        LET top == top_customers
            custs == CustomersIn(filtered_df)
            listed == {top[i].CUSTOMER_NAME : i \in 1..Len(top)}
            total(c) == Num(SalesOf(filtered_df, c, Len(filtered_df)))
        IN  /\ Len(top) <= 10
            /\ Len(top) < 10 => Cardinality(custs) < 10
            /\ Cardinality(listed) = Len(top)
            /\ listed \subseteq custs
            /\ \A i \in 1..Len(top) : top[i].SALES = total(top[i].CUSTOMER_NAME)
            /\ \A i, j \in 1..Len(top) : i < j => FLeq(top[j].SALES, top[i].SALES)
            /\ \A c \in custs \ listed :
                   \A i \in 1..Len(top) : FLeq(total(c), top[i].SALES)

\* a run over more than 10 customers with different sums
C8_Witness ==
    /\ session
    /\ Cardinality(CustomersIn(filtered_df)) > 10
    /\ Len(top_customers) = 10
    /\ top_customers[1].SALES # top_customers[10].SALES

RECURSIVE Total(_, _)
Total(f, S) ==
    IF S = {} THEN 0
    ELSE LET k == CHOOSE x \in S : TRUE IN f[k] + Total(f, S \ {k})

\* C9: the counts of the deal-size distribution add up to the number of rows
\* of the Filtered View.
C9_CountsCoverView ==
    session => Total(deal_size_dist, DOMAIN deal_size_dist) = Len(filtered_df)

\* C10: with the default selection, loading the export gives the loaded
\* table again: the same rows with the same derived values.
C10_RoundTrip ==
    (session /\ sel = Options(df)) => load_data(exported) = df

\* an export of two rows under the default selection, one of an order number
\* written with a thousands separator, one of a missing order number
C10_Witness ==
    /\ session
    /\ sel = Options(df)
    /\ Len(exported) = 2
    /\ \E i \in 1..2 : file[i].ORDER_NUMBER # exported[i].ORDER_NUMBER
    /\ \E i \in 1..2 : IsNaN(df[i].ORDER_NUMBER)

====
